---- MODULE Spec2Model ----
(***************************************************************************)
(* Model of tensorflow/python/autograph/operators/py_builtins.py: the      *)
(* overloads of the Python builtins abs, float, int, len, print, range and *)
(* enumerate, the registry lookup overload_of and the frame-walking        *)
(* evaluator eval_in_original_context.                                     *)
(*                                                                         *)
(* Every action is one call of one public function of the module.  The     *)
(* state records the call, what it returned or raised, the staged ops it   *)
(* constructed, the host builtins it invoked, what it printed and which    *)
(* evaluation-primitive invocations it made.  Execute runs a staged result *)
(* the way the execution engine would.                                     *)
(***************************************************************************)
EXTENDS Integers, Sequences, FiniteSets, TLC

\* ------------------------------------------------------------------ bounds
MaxInt == 2        \* integers range over -MaxInt..MaxInt
MaxRank == 2       \* tensor ranks range over 0..MaxRank
MaxDim == 2        \* leading dimension sizes range over 0..MaxDim
MaxFrames == 3     \* ancestor frames above the evaluator's own frame
MaxDelta == 2      \* caller_level_delta ranges over 0..MaxDelta

\* ------------------------------------------------------------------ values
\* A statically unknown rank or dimension (None in TensorShape).
NoneDim == -1

\* UNSPECIFIED = object(): a plain host object, distinct from every value.
UNSPECIFIED == [ty |-> "object"]

None == [ty |-> "NoneType"]

NativeInt(n) == [ty |-> "int", n |-> n]

NativeFloat(n) == [ty |-> "float", n |-> n]

NativeStr(chars) == [ty |-> "str", chars |-> chars]

NativeList(items) == [ty |-> "list", items |-> items]

\* A Tensor: dtype, static shape information (ndims, dim0s: NoneDim when
\* unknown), the shape it has at execution time (rank, dim0), whether its
\* value is a constant known at construction time, and the scalar it holds.
Tensor(dtype, ndims, dim0s, rank, dim0, static, n) ==
  [ty |-> "Tensor", dtype |-> dtype, ndims |-> ndims, dim0s |-> dim0s,
   rank |-> rank, dim0 |-> dim0, static |-> static, n |-> n]

TensorArray(n) == [ty |-> "TensorArray", n |-> n]

Dataset(items) == [ty |-> "Dataset", items |-> items]

Ints == (0 - MaxInt)..MaxInt

NativeInts == {NativeInt(n) : n \in Ints}

Strs == {NativeStr(<<"1", "2">>), NativeStr(<<"1", "0">>),
         NativeStr(<<"f">>), NativeStr(<<>>)}

Lists == {NativeList(<<>>), NativeList(<<10, 20>>)}

\* Scalar integer tensors, constants (static) or placeholders.
IntTensors == {Tensor("int32", 0, NoneDim, 0, 0, st, n) :
                 st \in BOOLEAN, n \in Ints}

\* Scalar tensors of the element kinds the coercions distinguish.
KindTensors == {Tensor(d, 0, NoneDim, 0, 0, FALSE, 1) :
                  d \in {"string", "int32", "float32"}}

\* Generic tensors of every static/dynamic shape combination: the static
\* rank is unknown or the true rank, the static leading dimension is unknown
\* or (when the rank is known and nonzero) the true one.
ShapeTensors ==
  {t \in [ty : {"Tensor"}, dtype : {"int32"}, ndims : {NoneDim} \cup 0..MaxRank,
          dim0s : {NoneDim} \cup 0..MaxDim, rank : 0..MaxRank,
          dim0 : 0..MaxDim, static : {FALSE}, n : {0}] :
     /\ t.ndims \in {NoneDim, t.rank}
     /\ t.dim0s # NoneDim => (t.ndims # NoneDim /\ t.rank > 0 /\ t.dim0s = t.dim0)
     /\ t.rank = 0 => t.dim0 = 0}

\* A tensor list is a Tensor of variant dtype.
TensorLists == {Tensor("variant", 0, NoneDim, 0, 0, FALSE, n) : n \in 0..MaxDim}

TensorArrays == {TensorArray(n) : n \in 0..MaxDim}

Datasets == {Dataset(<<>>), Dataset(<<10, 20>>)}

\* ------------------------------------------------- classification predicates
is_tensor(x) == x.ty = "Tensor"

is_tensor_list(x) == x.ty = "Tensor" /\ x.dtype = "variant"

is_tensor_array(x) == x.ty = "TensorArray"

is_dataset(x) == x.ty = "Dataset"

\* Native: none of the symbolic categories.
IsNative(x) == x.ty \notin {"Tensor", "TensorArray", "Dataset"}

\* ----------------------------------------------------------------- outcomes
Ret(v) == [kind |-> "value", val |-> v]

Raise(err, msg) == [kind |-> "error", err |-> err, msg |-> msg]

Staged(node) == [kind |-> "staged", node |-> node]

NoKw == [k \in {} |-> None]

HostInvocation(name, args, kw) == [name |-> name, args |-> args, kw |-> kw]

\* What one call did: its outcome, the staged ops it constructed, the calls
\* it delegated to (host builtins, the staged range constructor), what it
\* wrote to the console and the evaluation-primitive invocations it made.
Res(out, ops, host, printed) ==
  [out |-> out, ops |-> ops, host |-> host, printed |-> printed, evals |-> <<>>]

\* ------------------------------------------------------------ host builtins
Abs(n) == IF n < 0 THEN 0 - n ELSE n

Max(a, b) == IF a >= b THEN a ELSE b

Digit(c) ==
  CASE c = "0" -> 0 [] c = "1" -> 1 [] c = "2" -> 2 [] c = "f" -> 15
    [] OTHER -> 99

\* The value of a digit string in a base, or -1 when it is not a numeral.
RECURSIVE ParseDigits(_, _, _)
ParseDigits(chars, base, acc) ==
  IF chars = <<>> THEN acc
  ELSE IF Digit(Head(chars)) >= base THEN -1
  ELSE ParseDigits(Tail(chars), base, acc * base + Digit(Head(chars)))

ParseInt(chars, base) ==
  IF chars = <<>> THEN -1 ELSE ParseDigits(chars, base, 0)

\* abs(x)
HostAbs(args, kw) ==
  IF Len(args) # 1 \/ DOMAIN kw # {} THEN Raise("TypeError", <<>>)
  ELSE IF args[1].ty = "int" THEN Ret(NativeInt(Abs(args[1].n)))
  ELSE IF args[1].ty = "float" THEN Ret(NativeFloat(Abs(args[1].n)))
  ELSE Raise("TypeError", <<>>)

\* float(), float(x)
HostFloat(args, kw) ==
  IF Len(args) > 1 \/ DOMAIN kw # {} THEN Raise("TypeError", <<>>)
  ELSE IF Len(args) = 0 THEN Ret(NativeFloat(0))
  ELSE IF args[1].ty \in {"int", "float"} THEN Ret(NativeFloat(args[1].n))
  ELSE IF args[1].ty = "str"
    THEN IF ParseInt(args[1].chars, 10) < 0 THEN Raise("ValueError", <<>>)
         ELSE Ret(NativeFloat(ParseInt(args[1].chars, 10)))
  ELSE Raise("TypeError", <<>>)

\* int(), int(x), int(x, base): an explicit base needs a string and an
\* integer base.
HostInt(args, kw) ==
  IF Len(args) > 2 \/ DOMAIN kw # {} THEN Raise("TypeError", <<>>)
  ELSE IF Len(args) = 0 THEN Ret(NativeInt(0))
  ELSE IF Len(args) = 1
    THEN IF args[1].ty \in {"int", "float"} THEN Ret(NativeInt(args[1].n))
         ELSE IF args[1].ty = "str"
           THEN IF ParseInt(args[1].chars, 10) < 0 THEN Raise("ValueError", <<>>)
                ELSE Ret(NativeInt(ParseInt(args[1].chars, 10)))
         ELSE Raise("TypeError", <<>>)
  ELSE IF args[2].ty # "int" \/ args[1].ty # "str" THEN Raise("TypeError", <<>>)
  ELSE IF ParseInt(args[1].chars, args[2].n) < 0 THEN Raise("ValueError", <<>>)
  ELSE Ret(NativeInt(ParseInt(args[1].chars, args[2].n)))

\* len(s)
HostLen(args, kw) ==
  IF Len(args) # 1 \/ DOMAIN kw # {} THEN Raise("TypeError", <<>>)
  ELSE IF args[1].ty = "str" THEN Ret(NativeInt(Len(args[1].chars)))
  ELSE IF args[1].ty = "list" THEN Ret(NativeInt(Len(args[1].items)))
  ELSE Raise("TypeError", <<>>)

\* The elements of range(start, stop, step), step # 0.
RangeElems(start, stop, step) ==
  LET span == IF step > 0 THEN stop - start ELSE start - stop
      count == IF span <= 0 THEN 0 ELSE (span + Abs(step) - 1) \div Abs(step)
  IN [i \in 1..count |-> start + (i - 1) * step]

\* range(stop), range(start, stop), range(start, stop, step): positional
\* integers only; a zero step is a ValueError.
HostRange(args, kw) ==
  IF Len(args) \notin 1..3 \/ DOMAIN kw # {} THEN Raise("TypeError", <<>>)
  ELSE IF \E i \in 1..Len(args) : args[i].ty # "int" THEN Raise("TypeError", <<>>)
  ELSE IF Len(args) = 1 THEN Ret(NativeList(RangeElems(0, args[1].n, 1)))
  ELSE IF Len(args) = 2 THEN Ret(NativeList(RangeElems(args[1].n, args[2].n, 1)))
  ELSE IF args[3].n = 0 THEN Raise("ValueError", <<>>)
  ELSE Ret(NativeList(RangeElems(args[1].n, args[2].n, args[3].n)))

\* The items of a native sequence, or <<-1>> when the value is not iterable.
ItemsOf(s) ==
  IF s.ty = "list" THEN s.items
  ELSE IF s.ty = "str" THEN s.chars
  ELSE <<-1>>

Iterable(s) == s.ty \in {"list", "str"}

\* enumerate(s), enumerate(s, start)
HostEnumerate(args, kw) ==
  IF Len(args) \notin 1..2 \/ DOMAIN kw # {} THEN Raise("TypeError", <<>>)
  ELSE IF ~Iterable(args[1]) THEN Raise("TypeError", <<>>)
  ELSE IF Len(args) = 2 /\ args[2].ty # "int" THEN Raise("TypeError", <<>>)
  ELSE LET start == IF Len(args) = 2 THEN args[2].n ELSE 0
           items == ItemsOf(args[1])
       IN Ret(NativeList([i \in 1..Len(items) |-> <<start + i - 1, items[i]>>]))

\* The keywords the host print accepts.
PrintKeywords == {"sep", "end", "file", "flush"}

\* print(*objects, **kwargs): an unknown keyword is a TypeError, so is a sep
\* or end that is neither a string nor None; a file without a write method
\* is an AttributeError.
HostPrint(args, kw) ==
  IF ~(DOMAIN kw \subseteq PrintKeywords) THEN Raise("TypeError", <<>>)
  ELSE IF \E k \in DOMAIN kw \cap {"sep", "end"} : kw[k].ty \notin {"str", "NoneType"}
  THEN Raise("TypeError", <<>>)
  ELSE IF "file" \in DOMAIN kw /\ kw["file"].ty \notin {"file", "NoneType"}
  THEN Raise("AttributeError", <<>>)
  ELSE Ret(None)

\* What print writes: the objects and the keywords it was given.
HostPrinted(args, kw) ==
  IF HostPrint(args, kw).kind = "value"
  THEN <<[objects |-> args, kwargs |-> kw]>>
  ELSE <<>>

\* The outcome of the host builtin called with these arguments.
Host(name, args, kw) ==
  CASE name = "abs" -> HostAbs(args, kw)
    [] name = "float" -> HostFloat(args, kw)
    [] name = "int" -> HostInt(args, kw)
    [] name = "len" -> HostLen(args, kw)
    [] name = "print" -> HostPrint(args, kw)
    [] name \in {"range", "xrange"} -> HostRange(args, kw)
    [] name = "enumerate" -> HostEnumerate(args, kw)

\* A call that delegates to the host builtin and returns what it returns.
Delegate(name, args, kw) ==
  Res(Host(name, args, kw), <<>>, <<HostInvocation(name, args, kw)>>,
      IF name = "print" THEN HostPrinted(args, kw) ELSE <<>>)

\* ------------------------------------------------------------- staged ops
\* A staged operation: its name, its attribute and its inputs.
Node(op, attr, in) == [op |-> op, attr |-> attr, in |-> in]

\* A call that constructs the staged ops `ops` and returns `out`.
Build(out, ops) == Res(out, ops, <<>>, <<>>)

\* math_ops.maximum(a, b): a scalar tensor holding the larger value, a
\* constant only when both inputs are known at construction time.
math_ops_maximum(a, b) ==
  Tensor("int32", 0, NoneDim, 0, 0,
         (a.ty = "int" \/ a.static) /\ (b.ty = "int" \/ b.static), Max(a.n, b.n))

\* An input of the staged range is usable when it is an integer or a tensor.
RangeInput(x) == x.ty \in {"int", "Tensor"}

IsStatic(x) == x.ty = "int" \/ (x.ty = "Tensor" /\ x.static)

\* The bounds of a staged range are inconsistent: zero step, or a limit on
\* the wrong side of the start.
BadBounds(start, limit, delta) ==
  \/ delta = 0
  \/ delta > 0 /\ start > limit
  \/ delta < 0 /\ start < limit

\* math_ops.range(start), (start, limit), (start, limit, delta).  With one
\* argument the range runs from 0 to it.  Inputs that are all known at
\* construction time are checked at construction time.
math_ops_range(args) ==
  IF \E i \in 1..Len(args) : ~RangeInput(args[i])
  THEN Res(Raise("TypeError", <<"cannot convert to tensor">>), <<>>,
           <<HostInvocation("math_ops.range", args, NoKw)>>, <<>>)
  ELSE LET start == IF Len(args) = 1 THEN NativeInt(0) ELSE args[1]
           limit == IF Len(args) = 1 THEN args[1] ELSE args[2]
           delta == IF Len(args) = 3 THEN args[3] ELSE NativeInt(1)
           node == Node("range", "int32", <<start, limit, delta>>)
       IN IF /\ IsStatic(start) /\ IsStatic(limit) /\ IsStatic(delta)
             /\ BadBounds(start.n, limit.n, delta.n)
          THEN Res(Raise("InvalidArgumentError", <<"range bounds">>), <<>>,
                   <<HostInvocation("math_ops.range", args, NoKw)>>, <<>>)
          ELSE Res(Staged(node), <<Node("range", "int32", args)>>,
                   <<HostInvocation("math_ops.range", args, NoKw)>>, <<>>)

\* ----------------------------------------------------------- abs_, float_
_tf_abs(x) == Build(Staged(Node("abs", "", <<x>>)), <<Node("abs", "", <<x>>)>>)

_py_abs(x) == Delegate("abs", <<x>>, NoKw)

abs_(x) == IF is_tensor(x) THEN _tf_abs(x) ELSE _py_abs(x)

_tf_float(x) ==
  IF x.dtype = "string"
  THEN Build(Staged(Node("string_to_number", "float32", <<x>>)),
             <<Node("string_to_number", "float32", <<x>>)>>)
  ELSE Build(Staged(Node("cast", "float32", <<x>>)),
             <<Node("cast", "float32", <<x>>)>>)

_py_float(x) == Delegate("float", <<x>>, NoKw)

float_(x) == IF is_tensor(x) THEN _tf_float(x) ELSE _py_float(x)

\* --------------------------------------------------------------------- int_
\* The base test without the UNSPECIFIED alternative: base != 10.
BaseSupported_only_ten(base) == base.ty = "int" /\ base.n = 10

\* base not in (10, UNSPECIFIED)
BaseSupported(base) ==
  (base.ty = "int" /\ base.n = 10) \/ base = UNSPECIFIED

_tf_int(x, base) ==
  IF ~BaseSupported(base)
  THEN Build(Raise("NotImplementedError", <<"base not supported for int">>), <<>>)
  ELSE IF x.dtype = "string"
  THEN Build(Staged(Node("string_to_number", "int32", <<x>>)),
             <<Node("string_to_number", "int32", <<x>>)>>)
  ELSE Build(Staged(Node("cast", "int32", <<x>>)),
             <<Node("cast", "int32", <<x>>)>>)

_py_int(x, base) ==
  IF base = UNSPECIFIED THEN Delegate("int", <<x>>, NoKw)
  ELSE Delegate("int", <<x, base>>, NoKw)

int_(x, base) == IF is_tensor(x) THEN _tf_int(x, base) ELSE _py_int(x, base)

\* --------------------------------------------------------------------- len_
_tf_tensor_array_len(s) ==
  Build(Staged(Node("tensor_array_size", "", <<s>>)),
        <<Node("tensor_array_size", "", <<s>>)>>)

_tf_tensor_list_len(s) ==
  Build(Staged(Node("tensor_list_length", "", <<s>>)),
        <<Node("tensor_list_length", "", <<s>>)>>)

\* The static length of array_ops.shape(s): the rank of s when it is known
\* at construction time, unknown otherwise.
ShapeOfShape(s) == s.ndims

\* _tf_tensor_len testing the leading dimension for truth instead of for
\* `is not None`: a leading dimension of 0 is taken for an unknown one.
_tf_tensor_len_truthy(s) ==
  IF s.ndims # NoneDim /\ s.ndims # 0 /\ s.dim0s # NoneDim /\ s.dim0s # 0
  THEN Build(Ret(NativeInt(s.dim0s)), <<>>)
  ELSE LET shape == Node("shape", "", <<s>>)
       IN IF ShapeOfShape(s) = 0
          THEN Build(Raise("ValueError", <<"len requires a non-scalar tensor">>),
                     <<shape>>)
          ELSE IF ShapeOfShape(s) # NoneDim
          THEN Build(Staged(Node("shape_0", "", <<s>>)),
                     <<shape, shape, Node("shape_0", "", <<s>>)>>)
          ELSE Build(Staged(Node("cond_len", "", <<s>>)), <<shape>>)

_tf_tensor_len(s) ==
  IF s.ndims # NoneDim /\ s.ndims # 0 /\ s.dim0s # NoneDim
  THEN Build(Ret(NativeInt(s.dim0s)), <<>>)
  ELSE LET shape == Node("shape", "", <<s>>)
       IN IF ShapeOfShape(s) = 0
          THEN Build(Raise("ValueError", <<"len requires a non-scalar tensor">>),
                     <<shape>>)
          ELSE IF ShapeOfShape(s) # NoneDim
          THEN Build(Staged(Node("shape_0", "", <<s>>)),
                     <<shape, shape, Node("shape_0", "", <<s>>)>>)
          ELSE Build(Staged(Node("cond_len", "", <<s>>)),
                     <<shape, Node("rank", "", <<s>>), Node("greater", "", <<s>>),
                       shape, Node("shape_0", "", <<s>>),
                       Node("string_join", "", <<s>>), Node("Assert", "", <<s>>),
                       Node("cond", "", <<s>>)>>)

_py_len(s) == Delegate("len", <<s>>, NoKw)

len_(s) ==
  IF is_tensor_array(s) THEN _tf_tensor_array_len(s)
  ELSE IF is_tensor_list(s) THEN _tf_tensor_list_len(s)
  ELSE IF is_tensor(s) THEN _tf_tensor_len(s)
  ELSE _py_len(s)

\* ------------------------------------------------------------------- print_
\* The keys in a fixed order, to name the offending ones in a message.
KeyOrder == <<"sep", "end", "file", "flush", "bogus", "colour">>

\* set(kwargs.keys()) - set(('sep', 'end', 'file', 'flush'))
unknown_kwargs(kwargs) == DOMAIN kwargs \ {"sep", "end", "file", "flush"}

_py_print(objects, kwargs) == Delegate("print", objects, kwargs)

\* The keywords the wrapped print receives: those not left UNSPECIFIED,
\* with flush defaulting to True.
override_kwargs(kwargs) ==
  LET kept == {k \in DOMAIN kwargs : kwargs[k] # UNSPECIFIED}
  IN [k \in kept \cup {"flush"} |->
        IF k \in kept THEN kwargs[k] ELSE [ty |-> "bool", n |-> 1]]

_tf_py_func_print(objects, kwargs) ==
  Build(Staged(Node("py_func", override_kwargs(kwargs), objects)),
        <<Node("py_func", override_kwargs(kwargs), objects)>>)

\* print_ validating the keywords on the native path only.
print_unvalidated_staged(objects, kwargs) ==
  IF \E i \in 1..Len(objects) : is_tensor(objects[i])
  THEN _tf_py_func_print(objects, kwargs)
  ELSE IF unknown_kwargs(kwargs) # {}
  THEN Build(Raise("ValueError",
                   <<"invalid keyword arguments: ">> \o
                   SelectSeq(KeyOrder, LAMBDA k : k \in unknown_kwargs(kwargs))),
             <<>>)
  ELSE _py_print(objects, kwargs)

print_(objects, kwargs) ==
  IF unknown_kwargs(kwargs) # {}
  THEN Build(Raise("ValueError",
                   <<"invalid keyword arguments: ">> \o
                   SelectSeq(KeyOrder, LAMBDA k : k \in unknown_kwargs(kwargs))),
             <<>>)
  ELSE IF \E i \in 1..Len(objects) : is_tensor(objects[i])
  THEN _tf_py_func_print(objects, kwargs)
  ELSE _py_print(objects, kwargs)

\* ------------------------------------------------------------------- range_
\* The call `res`, preceded by the construction of the staged op `op`.
After(op, res) == [res EXCEPT !.ops = <<op>> \o @]

\* _tf_range without the clamping of the stop bound.
_tf_range_unclamped(start_or_stop, stop, step) ==
  IF step # UNSPECIFIED
  THEN math_ops_range(<<start_or_stop, stop, step>>)
  ELSE IF stop # UNSPECIFIED
  THEN math_ops_range(<<start_or_stop, stop>>)
  ELSE math_ops_range(<<start_or_stop>>)

_tf_range(start_or_stop, stop, step) ==
  IF step # UNSPECIFIED
  THEN math_ops_range(<<start_or_stop, stop, step>>)
  ELSE IF stop # UNSPECIFIED
  THEN After(Node("maximum", "", <<start_or_stop, stop>>),
             math_ops_range(<<start_or_stop, math_ops_maximum(start_or_stop, stop)>>))
  ELSE After(Node("maximum", "", <<start_or_stop, NativeInt(0)>>),
             math_ops_range(<<math_ops_maximum(start_or_stop, NativeInt(0))>>))

_py_range(start_or_stop, stop, step) ==
  IF step # UNSPECIFIED THEN Delegate("range", <<start_or_stop, stop, step>>, NoKw)
  ELSE IF stop # UNSPECIFIED THEN Delegate("range", <<start_or_stop, stop>>, NoKw)
  ELSE Delegate("range", <<start_or_stop>>, NoKw)

range_(start_or_stop, stop, step) ==
  IF is_tensor(start_or_stop) \/ is_tensor(stop) \/ is_tensor(step)
  THEN _tf_range(start_or_stop, stop, step)
  ELSE _py_range(start_or_stop, stop, step)

\* --------------------------------------------------------------- enumerate_
_tf_dataset_enumerate(s, start) ==
  Build(Ret(Dataset([i \in 1..Len(s.items) |-> <<start.n + i - 1, s.items[i]>>])),
        <<Node("dataset_enumerate", "", <<s, start>>)>>)

_py_enumerate(s, start) == Delegate("enumerate", <<s, start>>, NoKw)

enumerate_(s, start) ==
  IF is_dataset(s) THEN _tf_dataset_enumerate(s, start)
  ELSE _py_enumerate(s, start)

\* -------------------------------------------------------------- overload_of
\* A callable: its __name__ and whether it is the host's builtin of that name
\* (a user function may carry a builtin's name without being the builtin).
Function(name, builtin) == [ty |-> "function", name |-> name, builtin |-> builtin]

Builtin(name) == Function(name, TRUE)

Overload(name) == Function(name, FALSE)

\* SUPPORTED_BUILTINS, with xrange added on Python 2.
SUPPORTED_BUILTINS(PY2) ==
  {Builtin("abs"), Builtin("float"), Builtin("int"), Builtin("len"),
   Builtin("print"), Builtin("range"), Builtin("enumerate")}
  \cup (IF PY2 THEN {Builtin("xrange")} ELSE {})

BUILTIN_FUINCTIONS_MAP ==
  [name \in {"abs", "float", "int", "len", "print", "range", "xrange", "enumerate"} |->
     CASE name = "abs" -> Overload("abs_")
       [] name = "float" -> Overload("float_")
       [] name = "int" -> Overload("int_")
       [] name = "len" -> Overload("len_")
       [] name = "print" -> Overload("print_")
       [] name = "range" -> Overload("range_")
       [] name = "xrange" -> Overload("range_")
       [] name = "enumerate" -> Overload("enumerate_")]

\* overload_of deciding support by __name__ instead of by identity.
overload_of_by_name(f, map, PY2) ==
  IF f.ty = "function" /\ f.name \in {g.name : g \in SUPPORTED_BUILTINS(PY2)}
  THEN IF f.name \in DOMAIN map THEN Build(Ret(map[f.name]), <<>>)
       ELSE Build(Raise("KeyError", <<f.name>>), <<>>)
  ELSE Build(Ret(f), <<>>)

\* BUILTIN_FUINCTIONS_MAP[f.__name__] for a supported builtin, f otherwise.
overload_of(f, map, PY2) ==
  IF f \in SUPPORTED_BUILTINS(PY2)
  THEN IF f.name \in DOMAIN map THEN Build(Ret(map[f.name]), <<>>)
       ELSE Build(Raise("KeyError", <<f.name>>), <<>>)
  ELSE Build(Ret(f), <<>>)

\* ------------------------------------------------ eval_in_original_context
Bindings(kind, owner) == [ty |-> "dict", kind |-> kind, owner |-> owner]

\* The frame `level` steps above the evaluator's own frame (level 0).
Frame(level) ==
  [f_globals |-> Bindings("globals", level), f_locals |-> Bindings("locals", level)]

\* The frame stack when `ancestors` frames lie above the evaluator's own
\* frame; the first element is the evaluator's own frame.
StackOf(ancestors) == [i \in 1..(ancestors + 1) |-> Frame(i - 1)]

\* A walk in which f_back of the outermost frame is that frame itself.
RECURSIVE Walk_saturating(_, _, _)
Walk_saturating(stack, ctx, steps) ==
  IF steps = 0 THEN ctx
  ELSE Walk_saturating(stack, IF ctx < Len(stack) THEN ctx + 1 ELSE ctx, steps - 1)

\* ctx_frame after `steps` more executions of ctx_frame = ctx_frame.f_back:
\* an index into the stack, 0 for None (f_back of the outermost frame), -1
\* when f_back was read from None.
RECURSIVE Walk(_, _, _)
Walk(stack, ctx, steps) ==
  IF steps = 0 THEN ctx
  ELSE IF ctx = 0 THEN -1
  ELSE Walk(stack, IF ctx < Len(stack) THEN ctx + 1 ELSE 0, steps - 1)

\* eval_in_original_context walking caller_level_delta frames, without
\* the extra step for its own frame.
eval_without_own_frame(stack, args, caller_level_delta) ==
  LET ctx_frame == Walk(stack, 1, caller_level_delta)
      failed == Build(Raise("AttributeError", <<"NoneType has no such attribute">>), <<>>)
  IN IF ctx_frame = -1 THEN failed
     ELSE IF Len(args) < 3 /\ ctx_frame = 0 THEN failed
     ELSE LET final == <<args[1],
                         IF Len(args) < 2 THEN stack[ctx_frame].f_globals ELSE args[2],
                         IF Len(args) < 3 THEN stack[ctx_frame].f_locals ELSE args[3]>>
          IN [Build(Ret([ty |-> "evaluated", of |-> final]), <<>>)
                EXCEPT !.evals = <<final>>]

eval_in_original_context(stack, args, caller_level_delta) ==
  LET ctx_frame == Walk(stack, 1, caller_level_delta + 1)
      failed == Build(Raise("AttributeError", <<"NoneType has no such attribute">>), <<>>)
  IN IF ctx_frame = -1 THEN failed
     ELSE IF Len(args) < 3 /\ ctx_frame = 0 THEN failed
     ELSE LET final == <<args[1],
                         IF Len(args) < 2 THEN stack[ctx_frame].f_globals ELSE args[2],
                         IF Len(args) < 3 THEN stack[ctx_frame].f_locals ELSE args[3]>>
          IN [Build(Ret([ty |-> "evaluated", of |-> final]), <<>>)
                EXCEPT !.evals = <<final>>]

\* ------------------------------------------------------------ execution
\* The conditional with the predicate rank >= 0 instead of rank > 0.
RunLenCond_ge(s) ==
  IF s.rank >= 0 THEN Ret(NativeInt(s.dim0))
  ELSE Raise("InvalidArgumentError",
             <<"assertion failed: ", "len requires non-zero rank, got ",
               ToString(s.rank)>>)

\* The conditional _tf_tensor_len stages for a tensor of unknown rank:
\* cond(rank > 0, lambda: shape(s)[0], raise_zero_rank_error), where the
\* false branch depends on an Assert(False, [msg]) that embeds the rank.
RunLenCond(s) ==
  IF s.rank > 0 THEN Ret(NativeInt(s.dim0))
  ELSE Raise("InvalidArgumentError",
             <<"assertion failed: ", "len requires non-zero rank, got ",
               ToString(s.rank)>>)

\* What the execution engine produces when it runs a staged result.
Exec(node) ==
  CASE node.op = "abs" -> Ret(NativeInt(Abs(node.in[1].n)))
    [] node.op \in {"cast", "string_to_number"} ->
         IF node.attr = "int32" THEN Ret(NativeInt(node.in[1].n))
         ELSE Ret(NativeFloat(node.in[1].n))
    [] node.op \in {"tensor_array_size", "tensor_list_length"} ->
         Ret(NativeInt(node.in[1].n))
    [] node.op = "shape_0" -> Ret(NativeInt(node.in[1].dim0))
    [] node.op = "cond_len" -> RunLenCond(node.in[1])
    [] node.op = "range" ->
         IF BadBounds(node.in[1].n, node.in[2].n, node.in[3].n)
         THEN Raise("InvalidArgumentError", <<"range bounds">>)
         ELSE Ret(NativeList(RangeElems(node.in[1].n, node.in[2].n, node.in[3].n)))
    [] node.op = "py_func" -> Ret(None)

\* v.numpy() for a tensor, v otherwise.
Materialize(v) == IF is_tensor(v) THEN NativeInt(v.n) ELSE v

\* What running a staged result writes to the console (print_wrapper).
ExecPrinted(node) ==
  IF node.op = "py_func"
  THEN <<[objects |-> [i \in 1..Len(node.in) |-> Materialize(node.in[i])],
          kwargs |-> node.attr]>>
  ELSE <<>>

\* ------------------------------------------------------------------- state
VARIABLES
  py2,        \* six.PY2: the host is Python 2
  registry,   \* BUILTIN_FUINCTIONS_MAP
  call,       \* the last call: function, positional and keyword arguments
  outcome,    \* what the call returned or raised
  ops,        \* the staged ops the call constructed, in order
  delegated,  \* the host builtins and staged range constructor it invoked
  printed,    \* what was written to the console
  evalCalls,  \* the invocations of the evaluation primitive
  executed    \* the result of running the call's staged result

vars == <<py2, registry, call, outcome, ops, delegated, printed, evalCalls, executed>>

NotRun == [kind |-> "none"]

Call(fn, args, kw) ==
  [fn |-> fn, args |-> args, kw |-> kw, delta |-> 0, stack |-> <<>>]

Init ==
  /\ py2 \in BOOLEAN
  /\ registry = BUILTIN_FUINCTIONS_MAP
  /\ call = Call("none", <<>>, NoKw)
  /\ outcome = NotRun
  /\ ops = <<>>
  /\ delegated = <<>>
  /\ printed = <<>>
  /\ evalCalls = <<>>
  /\ executed = NotRun

\* No call has been made yet.  The module keeps no state between calls, so
\* a behaviour is one call, followed by the execution of its staged result.
Idle == call.fn = "none"

\* The state after the call `c` did `res`.
Apply(c, res) ==
  /\ call' = c
  /\ outcome' = res.out
  /\ ops' = res.ops
  /\ delegated' = res.host
  /\ printed' = res.printed
  /\ evalCalls' = res.evals
  /\ executed' = NotRun
  /\ UNCHANGED <<py2, registry>>

\* ------------------------------------------------------------------ inputs
Bases == {NativeInt(2), NativeInt(10), NativeInt(16), None}

RangeVals == NativeInts \cup IntTensors

PrintObjects == {NativeInt(1), NativeStr(<<"a">>), Tensor("int32", 0, NoneDim, 0, 0, FALSE, 2)}

KwVals == {None, UNSPECIFIED}

PrintKwargs ==
  UNION {[keys -> KwVals] : keys \in SUBSET {"sep", "end", "file", "flush", "bogus", "colour"}}

Callables ==
  {Builtin(n) : n \in {"abs", "float", "int", "len", "print", "range",
                       "enumerate", "min", "sorted"}}
  \cup {Function(n, FALSE) : n \in {"abs", "xrange", "helper", "abs_"}}

\* xrange is a builtin of Python 2 only.
CallablesOf(PY2) == Callables \cup (IF PY2 THEN {Builtin("xrange")} ELSE {})

UserBindings == {Bindings("user", 1), Bindings("user", 2)}

\* ----------------------------------------------------------------- actions
CallOverloadOf ==
  /\ Idle
  /\ \E f \in CallablesOf(py2) \cup {NativeInt(1)} :
       Apply(Call("overload_of", <<f>>, NoKw), overload_of(f, registry, py2))

CallAbs ==
  /\ Idle
  /\ \E x \in NativeInts \cup Strs \cup IntTensors \cup TensorArrays :
       Apply(Call("abs", <<x>>, NoKw), abs_(x))

\* float_(x=0)
CallFloat ==
  /\ Idle
  /\ \/ Apply(Call("float", <<>>, NoKw), float_(NativeInt(0)))
     \/ \E x \in NativeInts \cup Strs \cup Lists \cup KindTensors :
          Apply(Call("float", <<x>>, NoKw), float_(x))

\* int_(x=0, base=UNSPECIFIED)
CallInt ==
  /\ Idle
  /\ \/ Apply(Call("int", <<>>, NoKw), int_(NativeInt(0), UNSPECIFIED))
     \/ \E x \in NativeInts \cup Strs \cup KindTensors :
          \/ Apply(Call("int", <<x>>, NoKw), int_(x, UNSPECIFIED))
          \/ \E base \in Bases : Apply(Call("int", <<x, base>>, NoKw), int_(x, base))

CallLen ==
  /\ Idle
  /\ \E s \in Strs \cup Lists \cup NativeInts \cup ShapeTensors \cup TensorLists
              \cup TensorArrays \cup Datasets :
       Apply(Call("len", <<s>>, NoKw), len_(s))

CallPrint ==
  /\ Idle
  /\ \E n \in 1..2 : \E objects \in [1..n -> PrintObjects] : \E kwargs \in PrintKwargs :
       Apply(Call("print", objects, kwargs), print_(objects, kwargs))

\* range_(start_or_stop, stop=UNSPECIFIED, step=UNSPECIFIED), called with
\* one, two or three positional arguments, or with step given by keyword
\* while stop is omitted.
CallRange ==
  /\ Idle
  /\ \E a \in RangeVals :
       \/ Apply(Call("range", <<a>>, NoKw), range_(a, UNSPECIFIED, UNSPECIFIED))
       \/ \E b \in RangeVals :
            \/ Apply(Call("range", <<a, b>>, NoKw), range_(a, b, UNSPECIFIED))
            \/ \E c \in RangeVals :
                 Apply(Call("range", <<a, b, c>>, NoKw), range_(a, b, c))
       \/ \E c \in RangeVals :
            Apply(Call("range", <<a>>, [k \in {"step"} |-> c]), range_(a, UNSPECIFIED, c))

\* enumerate_(s, start=0)
CallEnumerate ==
  /\ Idle
  /\ \E s \in Lists \cup Strs \cup Datasets \cup {NativeInt(1)} :
       \/ Apply(Call("enumerate", <<s>>, NoKw), enumerate_(s, NativeInt(0)))
       \/ \E start \in NativeInts :
            Apply(Call("enumerate", <<s, start>>, NoKw), enumerate_(s, start))

\* eval_in_original_context(f, args, caller_level_delta), called with
\* `ancestors` frames above its own (its caller's frame at least); args
\* holds the target and up to two overrides.
CallEval ==
  /\ Idle
  /\ \E ancestors \in 1..MaxFrames : \E delta \in 0..MaxDelta : \E n \in 0..2 :
       \E overrides \in [1..n -> UserBindings] :
         LET args == <<NativeStr(<<"x", "+", "1">>)>> \o overrides
             c == [fn |-> "eval", args |-> args, kw |-> NoKw, delta |-> delta,
                   stack |-> StackOf(ancestors)]
         IN Apply(c, eval_in_original_context(StackOf(ancestors), args, delta))

\* The execution engine runs the staged result of the last call.
Execute ==
  /\ outcome.kind = "staged"
  /\ executed = NotRun
  /\ executed' = Exec(outcome.node)
  /\ printed' = printed \o ExecPrinted(outcome.node)
  /\ UNCHANGED <<py2, registry, call, outcome, ops, delegated, evalCalls>>

Next ==
  \/ CallOverloadOf
  \/ CallRange
  \/ CallAbs
  \/ CallFloat
  \/ CallInt
  \/ CallLen
  \/ CallPrint
  \/ CallEnumerate
  \/ CallEval
  \/ Execute

Spec == Init /\ [][Next]_vars

\* ================================================================== claims
\* The seven builtins the overlay supports on every host.
SevenBuiltins ==
  {Builtin(n) : n \in {"abs", "float", "int", "len", "print", "range", "enumerate"}}

\* The overload named after a builtin: abs_ for abs, and so on.
OwnOverload(f) == Overload(f.name \o "_")

\* C1 (as stated): overload_of returns each of the seven supported builtins'
\* own overload and returns every other input unchanged; the lookup never
\* fails for a missing key and the registry is not modified.
C1_OnlySevenAreOverloaded ==
  call.fn = "overload_of" =>
    /\ outcome.kind = "value"
    /\ call.args[1] \in SevenBuiltins => outcome.val = OwnOverload(call.args[1])
    /\ call.args[1] \notin SevenBuiltins => outcome.val = call.args[1]
    /\ registry = BUILTIN_FUINCTIONS_MAP

\* C1 (amended): as stated, except that on a Python 2 host the builtin
\* xrange is an eighth supported builtin and is answered with range_.
C1_OverloadOfTotal ==
  call.fn = "overload_of" =>
    /\ outcome.kind = "value"
    /\ call.args[1] \in SevenBuiltins => outcome.val = OwnOverload(call.args[1])
    /\ (py2 /\ call.args[1] = Builtin("xrange")) => outcome.val = Overload("range_")
    /\ (call.args[1] \notin SevenBuiltins /\ ~(py2 /\ call.args[1] = Builtin("xrange")))
         => outcome.val = call.args[1]
    /\ registry = BUILTIN_FUINCTIONS_MAP

\* overload_of(xrange) on Python 2 has returned range_.
C1_Witness ==
  /\ call.fn = "overload_of"
  /\ py2
  /\ call.args[1] = Builtin("xrange")
  /\ outcome = Ret(Overload("range_"))

\* The argument of len_ is a generic symbolic array (not a list, not a buffer).
GenericArray(s) == is_tensor(s) /\ ~is_tensor_list(s)

\* C3: len_ on a generic symbolic array whose rank and leading dimension are
\* both known at construction time returns the leading dimension as a plain
\* integer and constructs no staged op.
C3_StaticLenIsPlainInt ==
  (/\ call.fn = "len"
   /\ GenericArray(call.args[1])
   /\ call.args[1].ndims # NoneDim
   /\ call.args[1].dim0s # NoneDim)
  => /\ outcome = Ret(NativeInt(call.args[1].dim0s))
     /\ ops = <<>>

\* len_ has answered for a tensor of static shape (0, ...): the leading
\* dimension is known and is zero.
C3_Witness ==
  /\ call.fn = "len"
  /\ GenericArray(call.args[1])
  /\ call.args[1].ndims = 2
  /\ call.args[1].dim0s = 0
  /\ outcome = Ret(NativeInt(0))

\* C7: on the staged path of int_, a supplied base other than 10 fails at
\* construction time with NotImplementedError (the UnsupportedFeatureError)
\* and constructs no op; an omitted base or base 10 constructs exactly one
\* op targeting int32: a text-to-number conversion for a string tensor, a
\* cast otherwise.
C7_StagedIntBase ==
  (call.fn = "int" /\ Len(call.args) >= 1 /\ is_tensor(call.args[1])) =>
    IF Len(call.args) = 2 /\ call.args[2] # NativeInt(10)
    THEN /\ outcome.kind = "error"
         /\ outcome.err = "NotImplementedError"
         /\ ops = <<>>
    ELSE /\ outcome.kind = "staged"
         /\ outcome.node.op =
              (IF call.args[1].dtype = "string" THEN "string_to_number" ELSE "cast")
         /\ outcome.node.attr = "int32"
         /\ ops = <<outcome.node>>

\* int_ of a string tensor with base omitted has staged a text-to-number
\* conversion.
C7_Witness ==
  /\ call.fn = "int"
  /\ Len(call.args) = 1
  /\ is_tensor(call.args[1])
  /\ call.args[1].dtype = "string"
  /\ outcome.kind = "staged"
  /\ outcome.node.op = "string_to_number"

\* The calls of the overloads of the supported builtins.
OverloadCalls == {"abs", "float", "int", "len", "print", "range", "enumerate"}

\* No argument of the call is symbolic.
AllNative(c) ==
  /\ \A i \in 1..Len(c.args) : IsNative(c.args[i])
  /\ \A k \in DOMAIN c.kw : IsNative(c.kw[k])

\* UNSPECIFIED is among the arguments of a delegated call.
MarkerPassed(inv) == \E i \in 1..Len(inv.args) : inv.args[i] = UNSPECIFIED

\* C2 (as stated): a call of an overload with native arguments only takes the
\* native path and yields exactly what the original builtin yields for the
\* supplied arguments (the same value or the same host error, the same
\* output), and the omitted base of int_ and stop/step of range_ are not
\* forwarded to the host builtin.
C2_NativePathMatchesBuiltin ==
  (call.fn \in OverloadCalls /\ AllNative(call)) =>
    /\ ops = <<>>
    /\ outcome = Host(call.fn, call.args, call.kw)
    /\ printed = (IF call.fn = "print" THEN HostPrinted(call.args, call.kw) ELSE <<>>)
    /\ call.fn \in {"int", "range"} =>
         \A i \in 1..Len(delegated) : ~MarkerPassed(delegated[i])

\* C4 (as stated): len_ on a rank-0 symbolic array, whether
\* its rank is known at construction time or not, succeeds at construction
\* time with a staged result, and running that result fails with an
\* assertion failure whose message contains
\* "len requires non-zero rank, got 0".
RankZeroMessage(msg) ==
  \E i \in 1..(Len(msg) - 1) :
    msg[i] = "len requires non-zero rank, got " /\ msg[i + 1] = "0"

C4_RankZeroAlwaysDeferred ==
  (call.fn = "len" /\ GenericArray(call.args[1]) /\ call.args[1].rank = 0) =>
    /\ outcome.kind = "staged"
    /\ executed # NotRun =>
         /\ executed.kind = "error"
         /\ executed.err = "InvalidArgumentError"
         /\ RankZeroMessage(executed.msg)

\* C4 (amended): len_ on a rank-0 symbolic array whose rank is not known at
\* construction time succeeds at construction time with a staged result, and
\* running that result fails with an assertion failure whose message
\* contains "len requires non-zero rank, got 0"; when the rank is known to be
\* 0 at construction time the call itself fails with ValueError
\* ("len requires a non-scalar tensor") and nothing is left to run.
C4_RankZeroDeferredWhenUnknown ==
  (call.fn = "len" /\ GenericArray(call.args[1]) /\ call.args[1].rank = 0) =>
    IF call.args[1].ndims = NoneDim
    THEN /\ outcome.kind = "staged"
         /\ executed # NotRun =>
              /\ executed.kind = "error"
              /\ executed.err = "InvalidArgumentError"
              /\ RankZeroMessage(executed.msg)
    ELSE /\ outcome = Raise("ValueError", <<"len requires a non-scalar tensor">>)
         /\ executed = NotRun

\* The staged length of a rank-0 tensor of unknown static rank has been run
\* and has failed.
C4_Witness ==
  /\ call.fn = "len"
  /\ GenericArray(call.args[1])
  /\ call.args[1].rank = 0
  /\ call.args[1].ndims = NoneDim
  /\ executed.kind = "error"

\* The call of range_ took the staged path with step omitted.
StagedRangeNoStep ==
  /\ call.fn = "range"
  /\ Len(call.args) \in 1..2
  /\ DOMAIN call.kw = {}
  /\ \E i \in 1..Len(call.args) : is_tensor(call.args[i])

\* The number of elements of the native range over the values the arguments
\* hold at execution time.
NativeRangeLen(args) ==
  Len(HostRange([i \in 1..Len(args) |-> Materialize(args[i])], NoKw).val.items)

\* C5: on the staged path of range_ with step omitted, the stop bound handed
\* to the staged range is max(start, stop) (two arguments) or max(stop, 0)
\* (one argument); construction never fails, and the executed result has as
\* many elements as the native range of the same arguments.
C5_StagedRangeClamped ==
  StagedRangeNoStep =>
    /\ outcome.kind = "staged"
    /\ Len(delegated) = 1
    /\ delegated[1].name = "math_ops.range"
    /\ Len(delegated[1].args) = Len(call.args)
    /\ Len(call.args) = 2 =>
         /\ delegated[1].args[1] = call.args[1]
         /\ delegated[1].args[2].n = Max(call.args[1].n, call.args[2].n)
    /\ Len(call.args) = 1 => delegated[1].args[1].n = Max(call.args[1].n, 0)
    /\ executed # NotRun =>
         /\ executed.kind = "value"
         /\ Len(executed.val.items) = NativeRangeLen(call.args)

\* A staged range whose stop lies below its start has been run and is empty.
C5_Witness ==
  /\ StagedRangeNoStep
  /\ Len(call.args) = 2
  /\ call.args[2].n < call.args[1].n
  /\ executed = Ret(NativeList(<<>>))

\* The message names the key.
Names(msg, key) == \E i \in 1..Len(msg) : msg[i] = key

\* C6: print_ with any keyword outside {sep, end, file, flush} fails with
\* ValueError (the ValidationError) naming exactly the offending keys, on
\* the native and the staged path alike, before anything is printed and
\* before any print op is constructed; with recognized keywords only it
\* never fails with that error.
C6_PrintRejectsUnknownKeywords ==
  call.fn = "print" =>
    IF DOMAIN call.kw \subseteq {"sep", "end", "file", "flush"}
    THEN ~(outcome.kind = "error" /\ outcome.err = "ValueError")
    ELSE /\ outcome.kind = "error"
         /\ outcome.err = "ValueError"
         /\ \A k \in DOMAIN call.kw :
              Names(outcome.msg, k) <=> k \notin {"sep", "end", "file", "flush"}
         /\ printed = <<>>
         /\ ops = <<>>
         /\ delegated = <<>>

\* print_ of a symbolic argument with keyword bogus has been rejected.
C6_Witness ==
  /\ call.fn = "print"
  /\ \E i \in 1..Len(call.args) : is_tensor(call.args[i])
  /\ "bogus" \in DOMAIN call.kw
  /\ outcome.kind = "error"
  /\ Names(outcome.msg, "bogus")

\* The number of ancestor frames above the evaluator's own frame.
Ancestors == Len(call.stack) - 1

\* C8 (as stated): when fewer than caller_level_delta + 1 ancestor frames
\* exist, eval_in_original_context fails (AttributeError is the frame
\* resolution error the walk produces) and never invokes the evaluation
\* primitive, however many overrides were supplied.
C8_ShallowStackAlwaysFails ==
  (call.fn = "eval" /\ Ancestors < call.delta + 1) =>
    /\ outcome.kind = "error"
    /\ outcome.err = "AttributeError"
    /\ evalCalls = <<>>

\* C8 (amended): when fewer than caller_level_delta + 1 ancestor frames
\* exist, eval_in_original_context fails and never invokes the evaluation
\* primitive, unless exactly caller_level_delta ancestor frames exist and
\* both overrides were supplied: then no binding of the missing frame is
\* read and the primitive is invoked once with the target and the two
\* supplied overrides.
C8_ShallowStackFailsUnlessOverridden ==
  (call.fn = "eval" /\ Ancestors < call.delta + 1) =>
    IF Ancestors = call.delta /\ Len(call.args) = 3
    THEN /\ outcome.kind = "value"
         /\ evalCalls = <<call.args>>
    ELSE /\ outcome.kind = "error"
         /\ outcome.err = "AttributeError"
         /\ evalCalls = <<>>

\* The walk ran off the stack with one override supplied and the call failed.
C8_Witness ==
  /\ call.fn = "eval"
  /\ Ancestors = call.delta
  /\ Len(call.args) = 2
  /\ outcome.kind = "error"
  /\ evalCalls = <<>>

\* C9: when the stack is deep enough, the evaluation primitive is invoked
\* exactly once with (exec_target, G, L): G is the supplied second argument,
\* else the globals of the frame caller_level_delta + 1 steps above the
\* evaluator's own; L is the supplied third argument, else that frame's
\* locals.
C9_EvaluatesInLocatedFrame ==
  (call.fn = "eval" /\ Ancestors >= call.delta + 1) =>
    /\ outcome.kind = "value"
    /\ evalCalls =
         << <<call.args[1],
              IF Len(call.args) >= 2 THEN call.args[2]
              ELSE Bindings("globals", call.delta + 1),
              IF Len(call.args) >= 3 THEN call.args[3]
              ELSE Bindings("locals", call.delta + 1)>> >>

\* With caller_level_delta = 0 and no overrides the primitive has been
\* invoked with the immediate caller's bindings.
C9_Witness ==
  /\ call.fn = "eval"
  /\ call.delta = 0
  /\ Len(call.args) = 1
  /\ Len(evalCalls) = 1
  /\ evalCalls[1][2] = Bindings("globals", 1)
  /\ evalCalls[1][3] = Bindings("locals", 1)

\* C10: whichever trailing arguments of range_ are supplied or omitted, on
\* the native and the staged path, UNSPECIFIED is never passed to the host
\* range constructor nor to the staged range operation.
C10_MarkerNeverDelegated ==
  call.fn = "range" => \A i \in 1..Len(delegated) : ~MarkerPassed(delegated[i])

====
